---- MODULE Spec2Model ----
(***************************************************************************)
(* The decode/present pipeline of iced_video_player.                       *)
(*                                                                         *)
(* Two threads share the record Shared (src/src/video.rs):                 *)
(*   - the decode loop spawned by Shared::run, which calls Shared::next;   *)
(*   - the host's presentation/event thread, which owns the Video handle   *)
(*     (a RefCell, hence one call at a time) and runs set_paused, seek,    *)
(*     restart_stream, the widget's draw and the widget's on_event.        *)
(* Every atomic load/store, every mutex acquisition and every channel      *)
(* operation is one step, so the interleavings of the two threads are the  *)
(* ones the program has.                                                   *)
(*                                                                         *)
(* The decoder (video_rs::Decoder) is an external collaborator; it is      *)
(* modelled as a cursor into a finite stream of NumFrames frames.          *)
(***************************************************************************)
EXTENDS Integers, Sequences, FiniteSets

(***************************************************************************)
(* Bounds of the model.                                                    *)
(***************************************************************************)
\* number of frames of the media source; frames are named 0 .. NumFrames-1
NumFrames == 3

\* milliseconds per tick of the stream's time base (Shared.base); frame i
\* carries pts i, so it is presented at i * MsPerTick milliseconds
MsPerTick == 2

\* Time::new(None, timebase): a timestamp holding no pts
NoPts == -1

\* the loop's local `raw` before the first decode_raw of the loop
NoFrame == -1

VARIABLES
  \* ---- Shared (video.rs:71-79)
  frame,        \* Shared.frame: the frame whose RGBA bytes are stored
  timestamp,    \* Shared.timestamp: pts in ticks, or NoPts
  paused,       \* Shared.paused
  draw,         \* Shared.draw: the ready / upload flag
  decoder,      \* Shared.decoder: index of the next frame decode_raw returns
  decoderLock,  \* owner of the decoder mutex: "free", "loop" or "ui"
  frameLock,    \* owner of the frame mutex: "free" or "loop"
  \* ---- the decode loop thread (Shared::run / Shared::next)
  pcLoop,       \* position of the loop thread
  raw,          \* the frame returned by the loop's last successful decode_raw
  \* ---- the presentation thread
  pcUI,         \* position of the presentation thread
  dirty,        \* the flag the last draw call handed to the renderer
  result,       \* what the last seek or restart_stream returned, or "none"
  \* ---- the widget (video_player.rs) and what it told the host shell
  on_end_of_stream, \* VideoPlayer.on_end_of_stream is Some
  on_new_frame,     \* VideoPlayer.on_new_frame is Some
  is_eos,           \* Internal.is_eos as read by on_event
  next_redraw,      \* Internal.next_redraw
  evNow,            \* the `now` of the RedrawRequested event being handled
  evRaw,            \* on_event's local `frame` / `actual`
  published,        \* messages published to the shell by the last on_event
  redraws,          \* redraw requests made to the shell by the last on_event
  status,           \* what the last on_event returned; "none" before it returns
  \* ---- history of the run, read only by the properties
  req,          \* argument of the last set_paused call: "none", "pause", "resume"
  sinceTake,    \* publishes of the loop since the last draw (-1: no draw yet)
  pendingSeek,  \* ms of the last successful seek(Time) not yet followed by a publish
  stopped,      \* error of the loop's last failed decode_raw, until the next publish
  sought,       \* successful seek since `stopped` was set: "none", "start", "other"
  resumed,      \* set_paused(false) was called since `stopped` was set
  restartAtEos  \* the restart_stream in progress was called with the loop
                \* blocked on the wake channel after an end-of-stream

shared  == <<frame, timestamp, paused, draw, decoder, decoderLock, frameLock>>
loopv   == <<pcLoop, raw>>
uiv     == <<pcUI, dirty, result>>
widget  == <<on_end_of_stream, on_new_frame, is_eos, next_redraw, evNow, evRaw,
             published, redraws, status>>
history == <<req, sinceTake, pendingSeek, stopped, sought, resumed,
             restartAtEos>>
vars    == <<shared, loopv, uiv, widget, history>>


(***************************************************************************)
(* The decoder and the time base (external collaborators, by contract).    *)
(***************************************************************************)
Frames == 0 .. (NumFrames - 1)

\* (*raw).pts(): the pts, in ticks, of frame f
Pts(f) == f

\* Duration::from(Time): a Time without pts converts to zero
TimeMs(ts) == IF ts = NoPts THEN 0 ELSE ts * MsPerTick

\* Video::position(): the timestamp, read under its mutex, as a Duration
Position == TimeMs(timestamp)

\* The outcomes decode_raw can have with the decoder at `pos`.  Past the
\* last frame it reports end-of-stream; on a frame it returns the frame or
\* fails with a codec/container error, leaving the cursor where it was.
DecodeRaw(pos) ==
  IF pos >= NumFrames
    THEN {[kind |-> "EndOfStream", frame |-> NoFrame, pos |-> pos]}
    ELSE {[kind |-> "Ok", frame |-> pos, pos |-> pos + 1],
          [kind |-> "DecodeError", frame |-> NoFrame, pos |-> pos]}

\* decoder.seek(millis) positioning exactly: the first frame presented at
\* or after `ms`
SeekTarget(ms) == (ms + MsPerTick - 1) \div MsPerTick

(***************************************************************************)
(* History bookkeeping shared by the actions.                              *)
(***************************************************************************)
Bump(n) == IF n < 0 THEN 1 ELSE IF n >= 2 THEN 2 ELSE n + 1

(***************************************************************************)
(* The decode loop: Shared::run (video.rs:82-100).                         *)
(*   pcLoop = "check"    at line 86, about to load paused                  *)
(*            "recv"     at line 88, about to call next.recv()             *)
(*            "waiting"  inside recv(), parked on the channel              *)
(*            "chkdraw"  at line 89, about to load draw                    *)
(*            "lock"     in next(), line 104, acquiring the decoder mutex  *)
(*            "decode"   line 105, inside decode_raw, mutex held           *)
(*            "ts"       lines 113-116, about to write the timestamp       *)
(*            "frame"    line 117, acquiring the frame mutex               *)
(*            "store"    line 120, frame written, frame mutex held         *)
(*            "err"      line 93, next() returned Err                      *)
(***************************************************************************)
Sending == {"sp_send", "rs_send"}
Parked  == {"sp_parked", "rs_parked"}

\* where set_paused returns to
AfterSend(pc) == IF pc \in {"rs_send", "rs_parked"} THEN "rs_lock" ELSE "idle"

\* line 86: if shared.paused.load(SeqCst)
LoopCheckPaused ==
  /\ pcLoop = "check"
  /\ pcLoop' = IF paused THEN "recv" ELSE "chkdraw"
  /\ UNCHANGED <<shared, raw, uiv, widget, history>>

\* A loop that does not re-read paused after a wake: recv returns and the
\* loop goes on to the draw test.
LoopRecvNoRecheck ==
  /\ pcLoop = "recv"
  /\ IF pcUI \in Parked
       THEN /\ pcLoop' = "chkdraw"
            /\ pcUI' = AfterSend(pcUI)
       ELSE /\ pcLoop' = IF pcUI = "dropped" THEN "chkdraw" ELSE "waiting"
            /\ pcUI' = pcUI
  /\ UNCHANGED <<shared, raw, dirty, result, widget, history>>

\* line 88: let _ = shared.next.recv().  The channel has capacity 0: recv
\* takes the signal of a sender that is already parked, and otherwise parks.
\* Once the only Sender is gone (Internal.send, dropped with the Video) the
\* channel is closed: recv returns Err at once, and the Err is discarded.
LoopRecv ==
  /\ pcLoop = "recv"
  /\ IF pcUI \in Parked
       THEN /\ pcLoop' = "check"
            /\ pcUI' = AfterSend(pcUI)
       ELSE /\ pcLoop' = IF pcUI = "dropped" THEN "check" ELSE "waiting"
            /\ pcUI' = pcUI
  /\ UNCHANGED <<shared, raw, dirty, result, widget, history>>

\* A loop that decodes whether or not the published frame was taken.
LoopCheckDrawIgnored ==
  /\ pcLoop = "chkdraw"
  /\ pcLoop' = "lock"
  /\ UNCHANGED <<shared, raw, uiv, widget, history>>

\* line 89: else if !shared.draw.load(SeqCst); the empty else arm at
\* lines 96-97 goes round the loop again
LoopCheckDraw ==
  /\ pcLoop = "chkdraw"
  /\ pcLoop' = IF ~draw THEN "lock" ELSE "check"
  /\ UNCHANGED <<shared, raw, uiv, widget, history>>

\* A decode that does not wait for the decoder mutex.
LoopLockDecoderNoWait ==
  /\ pcLoop = "lock"
  /\ decoderLock' = "loop"
  /\ pcLoop' = "decode"
  /\ UNCHANGED <<frame, timestamp, paused, draw, decoder, frameLock, raw, uiv,
                 widget, history>>

\* line 104: let mut decoder = self.decoder.lock()
LoopLockDecoder ==
  /\ pcLoop = "lock"
  /\ decoderLock = "free"
  /\ decoderLock' = "loop"
  /\ pcLoop' = "decode"
  /\ UNCHANGED <<frame, timestamp, paused, draw, decoder, frameLock, raw, uiv,
                 widget, history>>

\* lines 105-111: decode_raw()? under the mutex, which is released at the
\* end of the block; then the conversion to RGBA, local to the thread
LoopDecodeRaw ==
  /\ pcLoop = "decode"
  /\ \E r \in DecodeRaw(decoder) :
       /\ decoder' = r.pos
       /\ IF r.kind = "Ok"
            THEN /\ raw' = r.frame
                 /\ pcLoop' = "ts"
                 /\ UNCHANGED <<stopped, sought, resumed>>
            ELSE /\ raw' = raw
                 /\ pcLoop' = "err"
                 /\ stopped' = r.kind
                 /\ sought' = "none"
                 /\ resumed' = FALSE
  /\ decoderLock' = "free"
  /\ UNCHANGED <<frame, timestamp, paused, draw, frameLock, uiv, widget,
                 req, sinceTake, pendingSeek, restartAtEos>>

\* A publish that raises the ready flag as soon as the timestamp is
\* written, before the frame is.
LoopWriteTimestampThenFlag ==
  /\ pcLoop = "ts"
  /\ timestamp' = Pts(raw)
  /\ draw' = TRUE
  /\ pcLoop' = "frame"
  /\ UNCHANGED <<frame, paused, decoder, decoderLock, frameLock, raw,
                 uiv, widget, history>>

\* lines 112-116: *timestamp = Time::new(pts, self.base), under the
\* timestamp mutex, which is released at the end of the block
LoopWriteTimestamp ==
  /\ pcLoop = "ts"
  /\ timestamp' = Pts(raw)
  /\ pcLoop' = "frame"
  /\ UNCHANGED <<frame, paused, draw, decoder, decoderLock, frameLock, raw,
                 uiv, widget, history>>

\* lines 117-118: let mut frame = self.frame.lock(); *frame = converted
LoopWriteFrame ==
  /\ pcLoop = "frame"
  /\ frameLock = "free"
  /\ frameLock' = "loop"
  /\ frame' = raw
  /\ pcLoop' = "store"
  /\ UNCHANGED <<timestamp, paused, draw, decoder, decoderLock, raw, uiv,
                 widget, history>>

\* A publish that returns without releasing the frame mutex.
LoopStoreDrawKeepsGuard ==
  /\ pcLoop = "store"
  /\ draw' = TRUE
  /\ frameLock' = frameLock
  /\ pcLoop' = "check"
  /\ sinceTake' = Bump(sinceTake)
  /\ pendingSeek' = -1
  /\ stopped' = "none"
  /\ sought' = "none"
  /\ resumed' = FALSE
  /\ UNCHANGED <<frame, timestamp, paused, decoder, decoderLock, raw, uiv,
                 widget, req, restartAtEos>>

\* lines 120-123: self.draw.store(true, SeqCst); Ok(()); the frame guard
\* is dropped on return
LoopStoreDraw ==
  /\ pcLoop = "store"
  /\ draw' = TRUE
  /\ frameLock' = "free"
  /\ pcLoop' = "check"
  /\ sinceTake' = Bump(sinceTake)
  /\ pendingSeek' = -1
  /\ stopped' = "none"
  /\ sought' = "none"
  /\ resumed' = FALSE
  /\ UNCHANGED <<frame, timestamp, paused, decoder, decoderLock, raw, uiv,
                 widget, req, restartAtEos>>

\* An error arm that leaves the paused flag alone.
LoopOnErrNoPause ==
  /\ pcLoop = "err"
  /\ pcLoop' = "check"
  /\ UNCHANGED <<shared, raw, uiv, widget, history>>

\* lines 92-94: Err(_) => shared.paused.store(true, SeqCst)
LoopOnErr ==
  /\ pcLoop = "err"
  /\ paused' = TRUE
  /\ pcLoop' = "check"
  /\ UNCHANGED <<frame, timestamp, draw, decoder, decoderLock, frameLock, raw,
                 uiv, widget, history>>

Loop ==
  \/ LoopCheckPaused
  \/ LoopRecv
  \/ LoopCheckDraw
  \/ LoopLockDecoder
  \/ LoopDecodeRaw
  \/ LoopWriteTimestamp
  \/ LoopWriteFrame
  \/ LoopStoreDraw
  \/ LoopOnErr


(***************************************************************************)
(* The control surface, on the presentation thread.                        *)
(*   pcUI = "idle"       between two calls                                 *)
(*          "sp_send"    set_paused, line 172, about to call send.send(()) *)
(*          "sp_parked"  set_paused, inside send(), parked on the channel  *)
(*          "rs_send", "rs_parked"  the same inside restart_stream         *)
(*          "rs_lock"    restart_stream, line 166, acquiring the mutex     *)
(*          "rs_seek"    restart_stream, inside seek_to_start, mutex held  *)
(*          "seek"       Shared::seek, past line 126, mutex held           *)
(*          "dropped"    the Video handle has been dropped                 *)
(***************************************************************************)

\* the largest Duration of the model whose milliseconds fit an i64; the
\* one Duration above it stands for every Duration over i64::MAX ms
MaxMillis == NumFrames * MsPerTick

Durations == 0 .. (MaxMillis + 1)

\* the arguments of seek: Position::Time(dur) and Position::Frame(n)
Positions ==
  [kind : {"Time"}, v : Durations] \cup [kind : {"Frame"}, v : 0 .. NumFrames]

\* line 132: let int: i64 = millis.try_into()?
FitsI64(ms) == ms <= MaxMillis

\* The frame the decoder is positioned on by a seek that succeeds, or
\* NoFrame when the call returns an error: a conversion error before the
\* decoder is called (line 132), or the decoder's error for a target that
\* is out of range (lines 133, 136).
SeekOutcome(pos) ==
  IF pos.kind = "Time"
    THEN IF ~FitsI64(pos.v) THEN NoFrame
         ELSE IF SeekTarget(pos.v) >= NumFrames THEN NoFrame
         ELSE SeekTarget(pos.v)
    ELSE IF pos.v >= NumFrames THEN NoFrame ELSE pos.v

\* The error a failing seek returns: Error::Conversion from the `?` of
\* line 132 (lib.rs:63), Error::GenericVideo from the `?` of lines 133 and
\* 136 (lib.rs:65)
SeekError(pos) ==
  IF pos.kind = "Time" /\ ~FitsI64(pos.v) THEN "Conversion" ELSE "GenericVideo"

\* history: a successful seek to frame `target`
NoteSeek(target) ==
  /\ sought' = IF stopped = "none" THEN "none"
               ELSE IF target = 0 THEN "start" ELSE "other"
  /\ resumed' = resumed

\* history: a call of set_paused(p)
NoteSetPaused(p) ==
  /\ req' = IF p THEN "pause" ELSE "resume"
  /\ resumed' = IF stopped = "none" \/ p THEN resumed ELSE TRUE

\* Internal::set_paused, line 171: self.shared.paused.store(paused, SeqCst)
SetPausedStore(p) ==
  /\ pcUI = "idle"
  /\ paused' = p
  /\ pcUI' = "sp_send"
  /\ NoteSetPaused(p)
  /\ UNCHANGED <<frame, timestamp, draw, decoder, decoderLock, frameLock,
                 loopv, dirty, result, widget, sinceTake, pendingSeek, stopped,
                 sought, restartAtEos>>

\* A send that does not wait: the signal is handed to a receiver parked in
\* recv() and dropped otherwise (try_send).
SetPausedTrySend ==
  /\ pcUI \in Sending
  /\ pcLoop' = IF pcLoop = "waiting" THEN "check" ELSE pcLoop
  /\ pcUI' = AfterSend(pcUI)
  /\ UNCHANGED <<shared, raw, dirty, result, widget, history>>

\* Internal::set_paused, line 172: let _ = self.send.send(()).  The channel
\* is kanal::bounded(0) (line 249): send hands the signal to a receiver
\* parked in recv(), and otherwise parks until a receiver arrives.
SetPausedSend ==
  /\ pcUI \in Sending
  /\ IF pcLoop = "waiting"
       THEN /\ pcLoop' = "check"
            /\ pcUI' = AfterSend(pcUI)
       ELSE /\ pcLoop' = pcLoop
            /\ pcUI' = IF pcUI = "sp_send" THEN "sp_parked" ELSE "rs_parked"
  /\ UNCHANGED <<shared, raw, dirty, result, widget, history>>

\* Internal::restart_stream, line 165: self.set_paused(false), its store
RestartStore ==
  /\ pcUI = "idle"
  /\ paused' = FALSE
  /\ pcUI' = "rs_send"
  /\ NoteSetPaused(FALSE)
  /\ restartAtEos' = (stopped = "EndOfStream" /\ paused /\ pcLoop = "waiting")
  /\ UNCHANGED <<frame, timestamp, draw, decoder, decoderLock, frameLock,
                 loopv, dirty, result, widget, sinceTake, pendingSeek, stopped,
                 sought>>

\* Internal::restart_stream, line 166: self.shared.decoder.lock()
RestartLock ==
  /\ pcUI = "rs_lock"
  /\ decoderLock = "free"
  /\ decoderLock' = "ui"
  /\ pcUI' = "rs_seek"
  /\ UNCHANGED <<frame, timestamp, paused, draw, decoder, frameLock, loopv,
                 dirty, result, widget, history>>

\* Internal::restart_stream, lines 166-167: .seek_to_start()?; Ok(())
RestartSeek ==
  /\ pcUI = "rs_seek"
  /\ \E ok \in BOOLEAN :
       IF ok
         THEN /\ decoder' = 0
              /\ pendingSeek' = -1
              /\ NoteSeek(0)
              /\ result' = "Ok"
         ELSE /\ result' = "GenericVideo"
              /\ UNCHANGED <<decoder, pendingSeek, sought, resumed>>
  /\ decoderLock' = "free"
  /\ pcUI' = "idle"
  /\ restartAtEos' = FALSE
  /\ UNCHANGED <<frame, timestamp, paused, draw, frameLock, loopv, dirty,
                 widget, req, sinceTake, stopped>>

\* A seek that also sets the timestamp to the position sought (the
\* statement left commented out at lines 127-128).
SeekDoSetsTimestamp ==
  /\ pcUI = "seek"
  /\ \E pos \in Positions :
       IF SeekOutcome(pos) # NoFrame
         THEN /\ decoder' = SeekOutcome(pos)
              /\ timestamp' = Pts(SeekOutcome(pos))
              /\ pendingSeek' = IF pos.kind = "Time" THEN pos.v ELSE -1
              /\ NoteSeek(SeekOutcome(pos))
              /\ result' = "Ok"
         ELSE /\ result' = SeekError(pos)
              /\ UNCHANGED <<decoder, timestamp, pendingSeek, sought, resumed>>
  /\ decoderLock' = "free"
  /\ pcUI' = "idle"
  /\ UNCHANGED <<frame, paused, draw, frameLock, loopv, dirty,
                 widget, req, sinceTake, stopped, restartAtEos>>

\* A seek that, when it succeeds, also invalidates the published frame
\* by clearing the ready flag.
SeekDoClearsReady ==
  /\ pcUI = "seek"
  /\ \E pos \in Positions :
       IF SeekOutcome(pos) # NoFrame
         THEN /\ decoder' = SeekOutcome(pos)
              /\ draw' = FALSE
              /\ pendingSeek' = IF pos.kind = "Time" THEN pos.v ELSE -1
              /\ NoteSeek(SeekOutcome(pos))
              /\ result' = "Ok"
         ELSE /\ result' = SeekError(pos)
              /\ UNCHANGED <<decoder, draw, pendingSeek, sought, resumed>>
  /\ decoderLock' = "free"
  /\ pcUI' = "idle"
  /\ UNCHANGED <<frame, timestamp, paused, frameLock, loopv, dirty,
                 widget, req, sinceTake, stopped, restartAtEos>>

\* Video::seek -> Internal::seek -> Shared::seek, line 126:
\* let mut decoder = self.decoder.lock()
SeekLock ==
  /\ pcUI = "idle"
  /\ decoderLock = "free"
  /\ decoderLock' = "ui"
  /\ pcUI' = "seek"
  /\ UNCHANGED <<frame, timestamp, paused, draw, decoder, frameLock, loopv,
                 dirty, result, widget, history>>

\* Shared::seek, lines 129-140: the match on the position, the decoder's
\* seek, and the release of the mutex on return
SeekDo ==
  /\ pcUI = "seek"
  /\ \E pos \in Positions :
       IF SeekOutcome(pos) # NoFrame
         THEN /\ decoder' = SeekOutcome(pos)
              /\ pendingSeek' = IF pos.kind = "Time" THEN pos.v ELSE -1
              /\ NoteSeek(SeekOutcome(pos))
              /\ result' = "Ok"
         ELSE /\ result' = SeekError(pos)
              /\ UNCHANGED <<decoder, pendingSeek, sought, resumed>>
  /\ decoderLock' = "free"
  /\ pcUI' = "idle"
  /\ UNCHANGED <<frame, timestamp, paused, draw, frameLock, loopv, dirty,
                 widget, req, sinceTake, stopped, restartAtEos>>

\* A draw that loads the ready flag without clearing it.
DrawPeek ==
  /\ pcUI = "idle"
  /\ dirty' = draw
  /\ sinceTake' = 0
  /\ UNCHANGED <<shared, loopv, pcUI, result, widget, req, pendingSeek,
                 stopped, sought, resumed, restartAtEos>>

\* A take_ready in two steps: a load of the flag, then a store of false.
DrawLoadThenStore ==
  \/ /\ pcUI = "idle"
     /\ dirty' = draw
     /\ sinceTake' = 0
     /\ pcUI' = "dr_store"
     /\ UNCHANGED <<shared, loopv, result, widget, req, pendingSeek, stopped,
                    sought, resumed, restartAtEos>>
  \/ /\ pcUI = "dr_store"
     /\ draw' = FALSE
     /\ pcUI' = "idle"
     /\ UNCHANGED <<frame, timestamp, paused, decoder, decoderLock, frameLock,
                    loopv, dirty, result, widget, history>>

\* VideoPlayer::draw (video_player.rs:118-129): the renderer is handed the
\* frame buffer and upload_frame.swap(false, SeqCst), the ready flag
Draw ==
  /\ pcUI = "idle"
  /\ dirty' = draw
  /\ draw' = FALSE
  /\ sinceTake' = 0
  /\ UNCHANGED <<frame, timestamp, paused, decoder, decoderLock, frameLock,
                 loopv, pcUI, result, widget, req, pendingSeek, stopped, sought,
                 resumed, restartAtEos>>

\* Drop for Video (lines 179-183) has an empty body; the fields of Internal
\* are then dropped.  Internal.send is the only Sender of the wake channel,
\* so the channel is closed and a receiver parked in recv() is woken with
\* Err.  Internal.shared is one of two Arcs: the loop thread keeps the
\* other, so Shared and its decoder stay allocated.  No call is made on the
\* handle afterwards.
DropVideo ==
  /\ pcUI = "idle"
  /\ pcUI' = "dropped"
  /\ pcLoop' = IF pcLoop = "waiting" THEN "check" ELSE pcLoop
  /\ UNCHANGED <<shared, raw, dirty, result, widget, history>>

Control ==
  \/ \E p \in BOOLEAN : SetPausedStore(p)
  \/ SetPausedSend
  \/ RestartStore
  \/ RestartLock
  \/ RestartSeek
  \/ SeekLock
  \/ SeekDo
  \/ Draw

(***************************************************************************)
(* Video::new (video.rs:191-276): the first frame is decoded and stored,   *)
(* the timestamp holds no pts, the ready flag is set, playback is          *)
(* unpaused and the decode loop is started.                                *)
(***************************************************************************)
Init ==
  /\ frame = 0
  /\ timestamp = NoPts
  /\ paused = FALSE
  /\ draw = TRUE
  /\ decoder = 1
  /\ decoderLock = "free"
  /\ frameLock = "free"
  /\ pcLoop = "check"
  /\ raw = NoFrame
  /\ pcUI = "idle"
  /\ dirty = FALSE
  /\ result = "none"
  /\ on_end_of_stream = FALSE
  /\ on_new_frame = FALSE
  /\ is_eos = FALSE
  /\ next_redraw = 0
  /\ evNow = 0
  /\ evRaw = NoFrame
  /\ published = <<>>
  /\ redraws = 0
  /\ status = "none"
  /\ req = "none"
  /\ sinceTake = -1
  /\ pendingSeek = -1
  /\ stopped = "none"
  /\ sought = "none"
  /\ resumed = FALSE
  /\ restartAtEos = FALSE

Next == Loop \/ Control \/ DropVideo

Spec == Init /\ [][Next]_vars


(***************************************************************************)
(* The presentation adapter: VideoPlayer (video_player.rs).  Its handlers  *)
(* read the per-video record through the fields frame, upload_frame,       *)
(* paused, is_eos and source; they are the frame, the ready flag, the      *)
(* paused flag and the decoder of the shared state.  No code of the        *)
(* repository assigns is_eos.                                              *)
(*   pcUI = "ev_test"    on_event, line 146, about to test is_eos, paused  *)
(*          "ev_lock"    on_event, line 149, acquiring the decoder mutex   *)
(*          "ev_decode"  on_event, line 151, inside decode_raw, mutex held *)
(*          "ev_finish"  on_event, line 171, about to store the frame      *)
(*          "panicked"   an unwrap() of on_event failed                    *)
(***************************************************************************)

\* the latest time of a RedrawRequested event
MaxNow == 1

\* 1.0 / inner.framerate, in milliseconds: one frame per tick of the time base
RedrawInterval == MsPerTick

\* (now - inner.next_redraw): the difference of two Instants saturates at zero
Elapsed(now, then) == IF now >= then THEN now - then ELSE 0

\* lines 172-175: the next redraw deadline
NextRedraw(now, then) ==
  now + (RedrawInterval - (Elapsed(now, then) % RedrawInterval))

\* VideoPlayer::on_end_of_stream (lines 45-50)
OnEndOfStream ==
  /\ pcUI = "idle"
  /\ ~on_end_of_stream
  /\ on_end_of_stream' = TRUE
  /\ UNCHANGED <<shared, loopv, uiv, on_new_frame, is_eos, next_redraw, evNow,
                 evRaw, published, redraws, status, history>>

\* VideoPlayer::on_new_frame (lines 53-58)
OnNewFrame ==
  /\ pcUI = "idle"
  /\ ~on_new_frame
  /\ on_new_frame' = TRUE
  /\ UNCHANGED <<shared, loopv, uiv, on_end_of_stream, is_eos, next_redraw,
                 evNow, evRaw, published, redraws, status, history>>

\* on_event, lines 145, 183-185: any event but RedrawRequested is ignored
OnEventIgnored ==
  /\ pcUI = "idle"
  /\ published' = <<>>
  /\ redraws' = 0
  /\ status' = "Ignored"
  /\ UNCHANGED <<shared, loopv, uiv, on_end_of_stream, on_new_frame, is_eos,
                 next_redraw, evNow, evRaw, history>>

\* on_event, lines 143-145: the host delivers RedrawRequested(now)
OnEventRedraw ==
  /\ pcUI = "idle"
  /\ \E now \in evNow .. MaxNow : evNow' = now
  /\ published' = <<>>
  /\ redraws' = 0
  /\ status' = "none"
  /\ pcUI' = "ev_test"
  /\ UNCHANGED <<shared, loopv, dirty, result, on_end_of_stream, on_new_frame,
                 is_eos, next_redraw, evRaw, history>>

\* A test that does not look at the paused flag.
OnEventTestNotPaused ==
  /\ pcUI = "ev_test"
  /\ IF ~is_eos
       THEN /\ pcUI' = "ev_lock"
            /\ status' = status
       ELSE /\ pcUI' = "idle"
            /\ status' = "Captured"
  /\ UNCHANGED <<shared, loopv, dirty, result, on_end_of_stream, on_new_frame,
                 is_eos, next_redraw, evNow, evRaw, published, redraws, history>>

\* on_event, line 146: if !inner.is_eos && !inner.paused; when the test
\* fails the handler returns Status::Captured (line 182) and has done
\* nothing else
OnEventTest ==
  /\ pcUI = "ev_test"
  /\ IF ~is_eos /\ ~paused
       THEN /\ pcUI' = "ev_lock"
            /\ status' = status
       ELSE /\ pcUI' = "idle"
            /\ status' = "Captured"
  /\ UNCHANGED <<shared, loopv, dirty, result, on_end_of_stream, on_new_frame,
                 is_eos, next_redraw, evNow, evRaw, published, redraws, history>>

\* on_event, line 149: inner.source.lock().unwrap()
OnEventLock ==
  /\ pcUI = "ev_lock"
  /\ decoderLock = "free"
  /\ decoderLock' = "ui"
  /\ pcUI' = "ev_decode"
  /\ UNCHANGED <<frame, timestamp, paused, draw, decoder, frameLock, loopv,
                 dirty, result, widget, history>>

\* on_event, lines 151-170: decoder.decode_raw().unwrap(), the conversion,
\* inner.upload_frame.swap(true, AcqRel), and the release of the mutex at
\* the end of the block.  The unwrap of an Err panics the thread.
OnEventDecode ==
  /\ pcUI = "ev_decode"
  /\ \E r \in DecodeRaw(decoder) :
       /\ decoder' = r.pos
       /\ IF r.kind = "Ok"
            THEN /\ evRaw' = r.frame
                 /\ draw' = TRUE
                 /\ pcUI' = "ev_finish"
            ELSE /\ evRaw' = evRaw
                 /\ draw' = draw
                 /\ pcUI' = "panicked"
  /\ decoderLock' = "free"
  /\ UNCHANGED <<frame, timestamp, paused, frameLock, loopv, dirty, result,
                 on_end_of_stream, on_new_frame, is_eos, next_redraw, evNow,
                 published, redraws, status, history>>

\* on_event, lines 171-182: inner.frame = frame, the next deadline,
\* shell.request_redraw(At(next_redraw)), shell.publish(on_new_frame) and
\* the return of Status::Captured
OnEventFinish ==
  /\ pcUI = "ev_finish"
  /\ frameLock = "free"
  /\ frame' = evRaw
  /\ next_redraw' = NextRedraw(evNow, next_redraw)
  /\ redraws' = 1
  /\ published' = IF on_new_frame THEN <<"NewFrame">> ELSE <<>>
  /\ evRaw' = NoFrame
  /\ status' = "Captured"
  /\ pcUI' = "idle"
  /\ UNCHANGED <<timestamp, paused, draw, decoder, decoderLock, frameLock,
                 loopv, dirty, result, on_end_of_stream, on_new_frame, is_eos, evNow,
                 history>>

Present ==
  \/ OnEndOfStream
  \/ OnNewFrame
  \/ OnEventIgnored
  \/ OnEventRedraw
  \/ OnEventTest
  \/ OnEventLock
  \/ OnEventDecode
  \/ OnEventFinish

\* Playback as the widget drives it: the decode loop, pause and resume,
\* the draw call and the event handler
Playback ==
  \/ \E p \in BOOLEAN : SetPausedStore(p)
  \/ SetPausedSend
  \/ Draw

WidgetNext == Loop \/ Playback \/ Present

WidgetSpec == Init /\ [][WidgetNext]_vars


(***************************************************************************)
(* Scheduling.  Both threads are operating-system threads: a thread that   *)
(* can take its next step eventually takes it.  The presentation thread    *)
(* is never obliged to start a new call; it is obliged to finish the call  *)
(* it is in.                                                               *)
(***************************************************************************)
ControlProgress == SetPausedSend \/ RestartLock \/ RestartSeek \/ SeekDo

FairSpec == Spec /\ WF_vars(Loop) /\ WF_vars(ControlProgress)

\* Shared.decoder is a parking_lot::Mutex (video.rs:6): a thread that keeps
\* finding it taken is eventually handed it, however often the other
\* thread takes it again
ProgressSpec == FairSpec /\ SF_vars(LoopLockDecoder)

PresentProgress == OnEventTest \/ OnEventLock \/ OnEventDecode \/ OnEventFinish

\* the host, in addition, keeps delivering redraw events
FairWidgetSpec ==
  /\ WidgetSpec
  /\ WF_vars(Loop)
  /\ WF_vars(SetPausedSend)
  /\ WF_vars(PresentProgress)
  /\ WF_vars(OnEventRedraw)

(***************************************************************************)
(* Vocabulary of the properties.                                           *)
(***************************************************************************)
\* the loop has read paused == true and is about to block, or is blocked
InWaiting == pcLoop \in {"recv", "waiting"}

\* the loop has read paused == false and is in the decoding branch
InDecoding == pcLoop \in {"chkdraw", "lock", "decode", "ts", "frame", "store", "err"}

\* a call of set_paused is in progress
InSetPaused == pcUI \in {"sp_send", "sp_parked", "rs_send", "rs_parked"}

\* set_paused(true) has returned and set_paused(false) was not called since
PauseHeld == req = "pause" /\ ~InSetPaused

\* this step is the loop completing a publish (video.rs:120-123)
PublishStep == pcLoop = "store" /\ pcLoop' = "check"

\* this step is the loop entering decode_raw (video.rs:104-105)
DecodeStartStep == pcLoop = "lock" /\ pcLoop' = "decode"

Range(q) == {q[i] : i \in 1 .. Len(q)}

(***************************************************************************)
(* C1.  set_paused never blocks its caller: whatever the decode loop is    *)
(* doing, the call returns without waiting for the loop to receive the     *)
(* wake signal, so the caller is never parked inside send().               *)
(***************************************************************************)
C1_SetPausedNeverBlocks == pcUI \notin Parked

(***************************************************************************)
(* C2.  No missed wake: whenever the loop has read paused == true and is   *)
(* about to block or is blocked on the wake channel while paused is        *)
(* false, the set_paused call that cleared the flag is still in progress   *)
(* (it has not returned), and the loop eventually leaves Waiting: it       *)
(* re-enters the decoding branch, unless playback was paused again.        *)
(***************************************************************************)
C2_NoMissedWake ==
  /\ []((InWaiting /\ ~paused) => InSetPaused)
  /\ ((InWaiting /\ ~paused) ~> (InDecoding \/ paused))

\* the race window: the loop has read paused == true and has not parked
\* yet, and set_paused(false) has stored the flag
C2_Witness == pcLoop = "recv" /\ ~paused /\ req = "resume" /\ pcUI = "sp_send"

(***************************************************************************)
(* C3.  Pause quiescence: once set_paused(true) has returned, and until    *)
(* set_paused(false) is called, the decode loop is at its pause test or    *)
(* on the wake channel and paused is true: it is in no decode_raw call,    *)
(* starts none and publishes nothing.                                      *)
(***************************************************************************)
C3_PauseQuiescence ==
  PauseHeld => (pcLoop \in {"check", "recv", "waiting"} /\ paused)

\* paused by the caller with a free slot and frames left to decode
C3_Witness ==
  PauseHeld /\ pcLoop = "waiting" /\ ~draw /\ decoder < NumFrames /\ pcUI = "idle"

(***************************************************************************)
(* C4.  No half-frame: whenever the frame buffer can be read (its mutex    *)
(* is free), position() is the presentation time of the frame stored in    *)
(* the buffer.                                                             *)
(***************************************************************************)
C4_NoHalfFrame == (frameLock = "free") => (Position = TimeMs(Pts(frame)))

C7_SeekCorrectness ==
  [][(pendingSeek >= 0 /\ pcLoop = "ts" /\ pcLoop' = "frame")
       => TimeMs(timestamp') >= pendingSeek]_vars

(***************************************************************************)
(* C8.  EOS terminal, as claimed: after decode_raw has returned            *)
(* end-of-stream the loop publishes a frame only once the caller has       *)
(* sought to the start and resumed.                                        *)
(***************************************************************************)
C8_EosTerminalClaimed ==
  [][(stopped = "EndOfStream" /\ PublishStep) =>
       (sought = "start" /\ resumed)]_vars

(***************************************************************************)
(* C8, amended.  After decode_raw has returned end-of-stream the loop      *)
(* publishes a frame only once the caller has repositioned the decoder     *)
(* with a successful seek (to the start or to any other position) and      *)
(* has called set_paused(false); and once the loop has handled the         *)
(* end-of-stream, paused is true until set_paused(false) is called.        *)
(***************************************************************************)
C8_EosTerminal ==
  [][/\ (stopped = "EndOfStream" /\ PublishStep) => (sought # "none" /\ resumed)
     /\ (stopped' = "EndOfStream" /\ ~resumed' /\ pcLoop' \in {"check", "recv", "waiting"})
          => paused']_vars

\* after end-of-stream, a seek to another position and a resume: the loop
\* is about to complete a publish
C8_Witness ==
  stopped = "EndOfStream" /\ sought = "other" /\ resumed /\ pcLoop = "store"

(***************************************************************************)
(* C9.  A decode error other than end-of-stream is terminal: once          *)
(* decode_raw has failed with one, the loop calls decode_raw no more       *)
(* (unless the stream is sought back to its start).                        *)
(***************************************************************************)
C9_DecodeErrorTerminal ==
  [][(stopped = "DecodeError" /\ sought # "start") => ~DecodeStartStep]_vars

(***************************************************************************)
(* C10.  When the decode loop has reached end-of-stream and an             *)
(* on_end_of_stream message is registered, the widget eventually           *)
(* publishes that message to the shell (in every run in which the          *)
(* presentation thread keeps running).                                     *)
(***************************************************************************)
C10_EndOfStreamNotified ==
  (stopped = "EndOfStream" /\ on_end_of_stream)
     ~> ("EndOfStream" \in Range(published) \/ pcUI = "panicked")

(***************************************************************************)
(* C11.  Cancellation: once the Video handle has been dropped, the decode  *)
(* loop eventually stops for good: from some point on the loop thread      *)
(* has no step left to take (no iteration, no decode).                     *)
(***************************************************************************)
C11_Cancellation == (pcUI = "dropped") ~> [](~ENABLED Loop)

(***************************************************************************)
(* C12.  Seek and decode never interleave on the decoder: at most one of   *)
(* the loop's decode_raw, a seek and restart_stream's seek_to_start is     *)
(* inside its decoder call, and whoever is inside it owns the decoder      *)
(* mutex, which is free otherwise.                                         *)
(***************************************************************************)
C12_DecoderExclusive ==
  /\ ~(pcLoop = "decode" /\ pcUI \in {"seek", "rs_seek"})
  /\ (pcLoop = "decode") <=> (decoderLock = "loop")
  /\ (pcUI \in {"seek", "rs_seek"}) <=> (decoderLock = "ui")

\* a seek is inside the decoder while the loop waits for the mutex
C12_Witness == pcUI = "seek" /\ pcLoop = "lock" /\ decoderLock = "ui"

\* on_event is past its test of the paused flag and handles the tick
Handling == {"ev_lock", "ev_decode", "ev_finish"}

(***************************************************************************)
(* C13.  Decoding runs only on the decode loop: the presentation thread    *)
(* is never inside the decoder's decode_raw.                               *)
(***************************************************************************)
C13_DecodeOnlyOnLoop == pcUI # "ev_decode"

(***************************************************************************)
(* C14.  A redraw tick that finds the video paused does nothing: the       *)
(* handler returns at once, having requested no redraw and published no    *)
(* message, and leaves the frame buffer, the ready flag and the            *)
(* next-redraw deadline as they were.                                      *)
(***************************************************************************)
C14_PausedTickIdle ==
  [][(pcUI = "ev_test" /\ pcUI' # "ev_test" /\ paused) =>
       /\ pcUI' = "idle"
       /\ status' = "Captured"
       /\ redraws' = 0
       /\ published' = <<>>
       /\ UNCHANGED <<frame, draw, next_redraw>>]_vars

\* a tick was skipped on a paused video that has been playing: an earlier
\* tick had scheduled a redraw, a frame is ready, a message is registered
C14_Witness ==
  /\ pcUI = "idle" /\ status = "Captured" /\ paused /\ req = "pause"
  /\ redraws = 0 /\ published = <<>> /\ next_redraw > 0 /\ on_new_frame /\ draw

(***************************************************************************)
(* C15.  Every redraw tick that finds the video unpaused, with a           *)
(* new-frame message registered, ends having published that message        *)
(* exactly once and requested exactly one redraw.                          *)
(***************************************************************************)
C15_TickNotifiesOnce ==
  [][(pcUI \in Handling /\ pcUI' \notin Handling /\ on_new_frame) =>
       (published' = <<"NewFrame">> /\ redraws' = 1)]_vars

(***************************************************************************)
(* C16.  take_ready reads and clears the ready flag in one step and hands  *)
(* the renderer the value it read: the first draw after a publish hands    *)
(* the flag as it was and leaves it clear; a draw with no publish since    *)
(* the previous draw hands false; and the flag is never cleared without    *)
(* true being handed to the renderer, so no publish is lost.               *)
(***************************************************************************)
C16_TakeReady ==
  [][/\ (sinceTake # 0 /\ sinceTake' = 0) => (dirty' = draw /\ ~draw')
     /\ (sinceTake = 0 /\ sinceTake' = 0 /\ dirty' # dirty) => ~dirty'
     /\ (draw /\ ~draw') => dirty']_vars

\* the loop has published, a draw has taken the flag, and the draw after
\* it was handed false
C16_Witness ==
  /\ ~dirty /\ sinceTake = 0 /\ ~draw
  /\ pcLoop = "check" /\ frame = raw /\ raw # NoFrame /\ pcUI = "idle"

\* this step is the loop writing the timestamp of the frame it decoded
TimestampStep == pcLoop = "ts" /\ pcLoop' = "frame"

(***************************************************************************)
(* C17.  position() is 0 after open and changes only when the decode       *)
(* loop publishes: the timestamp is written by no step but the loop's      *)
(* write of the pts of the frame it decoded, so set_paused and seek leave  *)
(* position() alone, and position() does not change between the return of  *)
(* set_paused(true) and the next set_paused(false).                        *)
(***************************************************************************)
C17_PositionFollowsPublish ==
  /\ Position = 0
  /\ [][/\ (timestamp' # timestamp) => (TimestampStep /\ timestamp' = Pts(raw))
        /\ (PauseHeld /\ PauseHeld') => (Position' = Position)]_vars

\* paused by the caller at a position past the start, and the decoder
\* has since been sought back to the first frame
C17_Witness ==
  PauseHeld /\ pcUI = "idle" /\ Position > 0 /\ decoder = 0 /\ result = "Ok"

\* this step is a step of a seek call: Shared::seek is entered, or returns
SeekStep == pcUI # pcUI' /\ (pcUI = "seek" \/ pcUI' = "seek")

(***************************************************************************)
(* C18.  seek modifies only the decoder: no step of a seek call changes    *)
(* frame, timestamp, the ready flag or paused; the call returns Ok or      *)
(* one of the errors Conversion and GenericVideo to its caller, and a      *)
(* call that returns an error has left the decoder where it was.           *)
(***************************************************************************)
C18_SeekOnlyDecoder ==
  [][SeekStep =>
       /\ UNCHANGED <<frame, timestamp, draw, paused>>
       /\ (pcUI = "seek") =>
            /\ result' \in {"Ok", "Conversion", "GenericVideo"}
            /\ (result' # "Ok") => (decoder' = decoder)
            /\ (decoder' >= NumFrames) => (decoder' = decoder)]_vars

\* a seek has returned the conversion error, with a frame published, ready
\* and not yet drawn
C18_Witness ==
  /\ pcUI = "idle" /\ result = "Conversion"
  /\ draw /\ sinceTake = 1 /\ timestamp = 1 /\ decoder = 2

(***************************************************************************)
(* C19.  The decode loop never busy-waits: it does not go round the loop   *)
(* from the test of the ready flag without having decoded, and it comes    *)
(* back from recv() on the wake channel only with the signal of a sender.  *)
(***************************************************************************)
C19_NoBusyWait ==
  [][/\ ~(pcLoop = "chkdraw" /\ pcLoop' = "check")
     /\ (pcLoop = "recv" /\ pcLoop' = "check") => (pcUI \in Parked)]_vars

(***************************************************************************)
(* C20.  restart_stream after end-of-stream restarts playback: when it     *)
(* was called with the loop blocked on the wake channel after an           *)
(* end-of-stream and it returns Ok, paused is false on its return.         *)
(***************************************************************************)
C20_RestartAfterEos ==
  [][(pcUI = "rs_seek" /\ pcUI' = "idle" /\ restartAtEos /\ result' = "Ok")
       => ~paused']_vars

\* this step is the loop writing the frame buffer (video.rs:117-118)
FrameStep == pcLoop = "frame" /\ pcLoop' = "store"

NoNestedLocks ==
  /\ (pcLoop = "lock") => (frameLock # "loop")
  /\ (pcLoop = "frame") => (decoderLock # "loop")
  /\ (pcUI = "rs_lock") => (decoderLock # "ui")
  /\ (decoderLock = "loop") <=> (pcLoop = "decode")
  /\ (frameLock = "loop") <=> (pcLoop = "store")

(***************************************************************************)
(* C22.  Progress: with both threads scheduled fairly, a draw that was     *)
(* handed true on an unpaused video is eventually followed by a new        *)
(* publish, unless playback is paused (by the caller, or by the loop       *)
(* when the decoder returns no frame); and no thread ever waits for a      *)
(* mutex while holding another.                                            *)
(***************************************************************************)
C22_Progress ==
  /\ []NoNestedLocks
  /\ (dirty /\ sinceTake = 0 /\ ~paused) ~> (sinceTake = 1 \/ paused)

\* a second frame of the loop has been published after a draw was handed
\* the first, with playback never stopped by the decoder
C22_Witness ==
  /\ dirty /\ sinceTake = 1 /\ draw /\ ~paused /\ req = "none"
  /\ raw = 2 /\ frame = 2 /\ timestamp = 2 /\ pcLoop = "check"

====
